---------------------------- MODULE Spec2Model ----------------------------
(***************************************************************************)
(* Model of ucs-detect's automated terminal tester (test_terminals.py,     *)
(* class TerminalTester) and of the grading functions of                   *)
(* docker-test/aggregate_results.py.                                       *)
(*                                                                         *)
(* Spec      : one TerminalTester from construction through one run_tests  *)
(*             call, one step per strategy attempt.                        *)
(* SpecGrade : percentage_to_grade applied to bounded inputs.              *)
(***************************************************************************)
EXTENDS Integers, Sequences, FiniteSets, TLC

VARIABLES
    pc,          \* position of the tester: "new", "idle", "iter", "chain",
                 \* "finish", "done", "crashed", "hung"
    available,   \* self.available_terminals
    hasXvfb,     \* shutil.which('xvfb-run') is not None
    hasDocker,   \* shutil.which('docker') is not None
    hasDisplay,  \* os.environ.get('DISPLAY') is set
    method,      \* run_tests' method argument
    explicit,    \* run_tests was given a terminals list (not None)
    terminals,   \* the list run_tests iterates
    i,           \* index of the terminal being tested (0 before the first)
    stage,       \* next statement of the auto chain (1..4)
    result,      \* run_tests' local variable result
    log,         \* the strategy calls made for terminal i, with their outcomes
    status,      \* per terminal: "Idle", "Pending", "Succeeded", "Failed"
    results,     \* self.results
    files,       \* the save_result calls of this run, in order
    leftover,    \* transient resources that ended attempts did not release
    crash,       \* the exception that left run_tests, or "none"
    gp, gq,      \* inputs of percentage_to_grade, in 1/Scale percent
    gradeP, gradeQ, \* the grades returned for gp and gq ("" before the call)
    apc,         \* position of the aggregator: "idle", "start", "loaded",
                 \* "scored", "reported"
    dirExists,   \* the results directory exists
    dirFiles,    \* its *.yaml files, in the order glob yields them
    aggResults,  \* the dict load_results returns (terminal -> document)
    scores,      \* the dict calculate_terminal_scores returns
    ranking,     \* sorted_terminals of generate_report
    rankingMd    \* sorted_terminals of generate_markdown_report

orchVars == <<pc, available, hasXvfb, hasDocker, hasDisplay, method, explicit,
              terminals, i, stage, result, log, status, results, files,
              leftover, crash>>
gradeVars == <<gp, gq, gradeP, gradeQ>>
aggVars == <<apc, dirExists, dirFiles, aggResults, scores, ranking, rankingMd>>
vars == <<orchVars, gradeVars, aggVars>>

-----------------------------------------------------------------------------
(* Bounds *)

MaxTerminals == 2

\* Percentages are fixed-point numbers with Scale steps per percent.
Scale == 1000

\* percentage_to_grade is applied to [-PctSpan, 100 + PctSpan] percent.
PctSpan == 50

\* n_errors and n_total of a sub-version entry range over 0..MaxCount.
MaxCount == 2

-----------------------------------------------------------------------------
(* terminal_configs: one display terminal and one multiplexer stand for the *)
(* eleven entries; "eterm" is a name that is not configured.                *)

terminal_configs ==
    [xterm |-> [needs_display |-> TRUE],
     tmux  |-> [needs_display |-> FALSE]]

Configured == DOMAIN terminal_configs

ConfigOrder == <<"xterm", "tmux">>

Names == Configured \cup {"eterm"}

Multiplexers == {"tmux"}

Methods == {"docker", "native", "xvfb", "auto"}

\* The argument lists of run_tests: sequences of distinct names.
TerminalLists ==
    {s \in UNION {[1..k -> Names] : k \in 0..MaxTerminals} :
        \A a, b \in DOMAIN s : a # b => s[a] # s[b]}

-----------------------------------------------------------------------------
(* Values returned by a strategy *)

None == [kind |-> "None", from |-> "-", term |-> "-"]

\* A non-empty result document parsed from the probe's YAML.
Doc(s, t) == [kind |-> "doc", from |-> s, term |-> t]

\* A YAML value that is not None but is false in a condition ({}, [], 0, '').
Falsy(s, t) == [kind |-> "falsy", from |-> s, term |-> t]

NoResult == [kind |-> "absent", from |-> "-", term |-> "-"]

\* Outcomes of one strategy call.
Returned(why, r, launched, created, released) ==
    [why |-> why, ret |-> r, exc |-> "none", hang |-> FALSE,
     launched |-> launched, left |-> created \ released]

Raised(why, e, launched, created, released) ==
    [why |-> why, ret |-> None, exc |-> e, hang |-> FALSE,
     launched |-> launched, left |-> created \ released]

Hung(why) ==
    [why |-> why, ret |-> None, exc |-> "none", hang |-> TRUE,
     launched |-> TRUE, left |-> {}]


-----------------------------------------------------------------------------
(* External processes *)

\* How a launched process ends when nothing stops it.
ProcEnds == {"exit0", "nonzero", "never"}

\* What subprocess.run observes of a process that ends as p: with a timeout
\* a process that never exits is killed and TimeoutExpired is raised; without
\* one the call does not return.
subprocess_run(p, timeout) ==
    IF p = "never" THEN (IF timeout THEN "TimeoutExpired" ELSE "hang") ELSE p

\* A transient resource created by strategy s for terminal t.
Res(kind, s, t) == [kind |-> kind, by |-> s, term |-> t]

\* "t in self.available_terminals" in place of the value's truth
IsAvailableKey(t) == t \in DOMAIN available

\* self.available_terminals.get(t)
IsAvailable(t) == t \in DOMAIN available /\ available[t]

-----------------------------------------------------------------------------
(* detect_terminals *)

ProbeOutcomes == {"rc0", "version_text", "nonzero", "timeout", "notfound"}

\* returncode == 0 or 'version' in the output; the caught exceptions give False
ProbeAvailable(o) == o \in {"rc0", "version_text"}

-----------------------------------------------------------------------------
(* The three strategies: the set of outcomes one call can have *)

\* with open(output_file): yaml.safe_load(f) of the temporary result file
ReadResults(s, t, created, released) ==
    {Returned("no_output", None, TRUE, created, released),
     Returned("bad_yaml", None, TRUE, created, released),
     Returned("falsy", Falsy(s, t), TRUE, created, released),
     Returned("ok", Doc(s, t), TRUE, created, released)}

test_terminal_docker(t) ==
    LET df == {Res("dockerfile", "docker", t)} IN
    IF ~hasDocker
    THEN {Raised("docker_missing", "FileNotFoundError", FALSE, df, df)}
    ELSE UNION {
        LET b == subprocess_run(pb, FALSE) IN
        IF b = "hang" THEN {Hung("build_hangs")}
        ELSE IF b = "nonzero"
        THEN {Raised("build_failed", "CalledProcessError", TRUE, df, df)}
        ELSE UNION {
            LET r == subprocess_run(pr, TRUE) IN
            IF r = "TimeoutExpired"
            THEN {Raised("run_timeout", "TimeoutExpired", TRUE, df, df)}
            ELSE IF r = "nonzero"
            THEN {Returned("run_failed", None, TRUE, df, df)}
            ELSE {Returned("no_marker", None, TRUE, df, df),
                  Returned("parse_failed", None, TRUE, df, df),
                  Returned("ok", Doc("docker", t), TRUE, df, df)}
            : pr \in ProcEnds}
        : pb \in ProcEnds}

test_terminal_native(t) ==
    LET tf  == {Res("tmpfile", "native", t)}
        ses == {Res("session", "native", t)}
    IN
    IF ~IsAvailable(t)
    THEN {Returned("not_available", None, FALSE, {}, {})}
    ELSE IF terminal_configs[t].needs_display /\ ~hasDisplay
    THEN {Returned("no_display", None, FALSE, {}, {})}
    ELSE IF t \in Multiplexers
    THEN UNION {
        LET c == subprocess_run(pcreate, FALSE) IN
        IF c = "hang" THEN {Hung("session_create_hangs")}
        ELSE UNION {
            LET k == subprocess_run(pkill, FALSE) IN
            IF k = "hang" THEN {Hung("session_kill_hangs")}
            ELSE IF c = "nonzero"
            THEN {Returned("session_failed", None, TRUE, tf, tf)}
            ELSE ReadResults("native", t, tf \cup ses, tf \cup ses)
            : pkill \in ProcEnds}
        : pcreate \in ProcEnds}
    ELSE UNION {
        LET g == subprocess_run(pgui, TRUE) IN
        IF g = "TimeoutExpired"
        THEN {Returned("timeout", None, TRUE, tf, tf)}
        ELSE ReadResults("native", t, tf, tf)
        : pgui \in ProcEnds}

test_with_xvfb(t) ==
    LET tf  == {Res("tmpfile", "xvfb", t)}
        ses == {Res("session", "xvfb", t)}
    IN
    IF ~hasXvfb
    THEN {Returned("xvfb_missing", None, FALSE, {}, {})}
    ELSE IF ~IsAvailable(t)
    THEN {Returned("not_available", None, FALSE, {}, {})}
    ELSE UNION {
        LET x == subprocess_run(px, TRUE) IN
        IF x = "TimeoutExpired"
        THEN {Returned("timeout", None, TRUE, tf, tf)}
        ELSE IF t \in Multiplexers
        THEN \* the run template starts a detached session named "test" and
             \* returns at once; the attempt never kills it.  The session is
             \* gone only when the probe has already finished.
             IF x = "nonzero"
             THEN {Returned("session_failed", None, TRUE, tf, tf)}
             ELSE {Returned("no_output", None, TRUE, tf \cup ses, tf),
                   Returned("bad_yaml", None, TRUE, tf \cup ses, tf),
                   Returned("falsy", Falsy("xvfb", t), TRUE, tf \cup ses, tf \cup ses),
                   Returned("ok", Doc("xvfb", t), TRUE, tf \cup ses, tf \cup ses)}
        ELSE ReadResults("xvfb", t, tf, tf)
        : px \in ProcEnds}

-----------------------------------------------------------------------------
(* run_tests *)

\* "if not result" in place of "if result is None"
ResultIsFalse(r) == r.kind # "doc"

\* the guard left out
ResultIgnored(r) == TRUE

\* "result is None", the guard of each later step of the auto chain
ResultIsNone(r) == r = None

\* "if result:", the test that decides Succeeded or Failed
Truthy(r) == r.kind = "doc"

\* the file is not written
save_result_skipped(fs, t, data) == fs

\* save_result: one file per call, named after the terminal
save_result(fs, t, data) == Append(fs, [name |-> t, data |-> data])

Cur == terminals[i]

\* The effect of one strategy call with outcome o; next is the statement of
\* the chain that follows (5: the chain is over).
Apply(s, o, next) ==
    /\ log' = Append(log, [strategy |-> s, out |-> o])
    /\ IF o.hang
       THEN /\ pc' = "hung"
            /\ UNCHANGED <<result, stage, leftover, crash>>
       ELSE IF o.exc # "none"
       THEN /\ pc' = "crashed"
            /\ crash' = o.exc
            /\ leftover' = leftover \cup o.left
            /\ UNCHANGED <<result, stage>>
       ELSE /\ result' = o.ret
            /\ leftover' = leftover \cup o.left
            /\ stage' = next
            /\ pc' = IF next > 4 THEN "finish" ELSE "chain"
            /\ UNCHANGED crash

Skip(next) ==
    /\ stage' = next
    /\ pc' = IF next > 4 THEN "finish" ELSE "chain"
    /\ UNCHANGED <<result, log, leftover, crash>>

DetectTerminals ==
    /\ pc = "new"
    /\ \E probe \in [Configured -> ProbeOutcomes] :
          available' = [t \in Configured |-> ProbeAvailable(probe[t])]
    /\ pc' = "idle"
    /\ UNCHANGED <<hasXvfb, hasDocker, hasDisplay, method, explicit, terminals,
                   i, stage, result, log, status, results, files, leftover,
                   crash, gradeVars, aggVars>>

\* run_tests(None, m): every available terminal, in configuration order
RunTestsDefault ==
    /\ pc = "idle"
    /\ \E m \in Methods : method' = m
    /\ explicit' = FALSE
    /\ terminals' = SelectSeq(ConfigOrder, LAMBDA t : available[t])
    /\ pc' = "iter"
    /\ UNCHANGED <<available, hasXvfb, hasDocker, hasDisplay, i, stage, result,
                   log, status, results, files, leftover, crash, gradeVars, aggVars>>

\* run_tests(lst, m)
RunTestsListed ==
    /\ pc = "idle"
    /\ \E m \in Methods : method' = m
    /\ explicit' = TRUE
    /\ \E lst \in TerminalLists : terminals' = lst
    /\ pc' = "iter"
    /\ UNCHANGED <<available, hasXvfb, hasDocker, hasDisplay, i, stage, result,
                   log, status, results, files, leftover, crash, gradeVars, aggVars>>

\* for terminal in terminals:
NextTerminal ==
    /\ pc = "iter"
    /\ IF i < Len(terminals)
       THEN /\ i' = i + 1
            /\ status' = [status EXCEPT ![terminals[i + 1]] = "Pending"]
            /\ result' = None
            /\ log' = <<>>
            /\ stage' = 1
            /\ pc' = "chain"
       ELSE /\ pc' = "done"
            /\ UNCHANGED <<i, status, result, log, stage>>
    /\ UNCHANGED <<available, hasXvfb, hasDocker, hasDisplay, method, explicit,
                   terminals, results, files, leftover, crash, gradeVars, aggVars>>

\* method 'docker', 'native' or 'xvfb': exactly one strategy
ExplicitAttempt ==
    /\ pc = "chain"
    /\ method # "auto"
    /\ \E o \in (IF method = "docker" THEN test_terminal_docker(Cur)
                 ELSE IF method = "native" THEN test_terminal_native(Cur)
                 ELSE test_with_xvfb(Cur)) :
          Apply(method, o, 5)
    /\ UNCHANGED <<available, hasXvfb, hasDocker, hasDisplay, method, explicit,
                   terminals, i, status, results, files, gradeVars, aggVars>>

\* auto: if not self.terminal_configs[terminal]['needs_display']: native
AutoNativeFirst ==
    /\ pc = "chain"
    /\ method = "auto"
    /\ stage = 1
    /\ IF Cur \notin Configured
       THEN /\ pc' = "crashed"
            /\ crash' = "KeyError"
            /\ UNCHANGED <<result, stage, log, leftover>>
       ELSE IF ~terminal_configs[Cur].needs_display
       THEN \E o \in test_terminal_native(Cur) : Apply("native", o, 2)
       ELSE Skip(2)
    /\ UNCHANGED <<available, hasXvfb, hasDocker, hasDisplay, method, explicit,
                   terminals, i, status, results, files, gradeVars, aggVars>>

\* auto: if result is None and shutil.which('xvfb-run'): xvfb
AutoXvfb ==
    /\ pc = "chain"
    /\ method = "auto"
    /\ stage = 2
    /\ IF ResultIsNone(result) /\ hasXvfb
       THEN \E o \in test_with_xvfb(Cur) : Apply("xvfb", o, 3)
       ELSE Skip(3)
    /\ UNCHANGED <<available, hasXvfb, hasDocker, hasDisplay, method, explicit,
                   terminals, i, status, results, files, gradeVars, aggVars>>

\* auto: if result is None and shutil.which('docker'): docker
AutoDocker ==
    /\ pc = "chain"
    /\ method = "auto"
    /\ stage = 3
    /\ IF ResultIsNone(result) /\ hasDocker
       THEN \E o \in test_terminal_docker(Cur) : Apply("docker", o, 4)
       ELSE Skip(4)
    /\ UNCHANGED <<available, hasXvfb, hasDocker, hasDisplay, method, explicit,
                   terminals, i, status, results, files, gradeVars, aggVars>>

\* auto: if result is None: native
AutoNativeLast ==
    /\ pc = "chain"
    /\ method = "auto"
    /\ stage = 4
    /\ IF ResultIsNone(result)
       THEN \E o \in test_terminal_native(Cur) : Apply("native", o, 5)
       ELSE Skip(5)
    /\ UNCHANGED <<available, hasXvfb, hasDocker, hasDisplay, method, explicit,
                   terminals, i, status, results, files, gradeVars, aggVars>>

\* if result: store and save; else: report the failure
FinishTerminal ==
    /\ pc = "finish"
    /\ IF Truthy(result)
       THEN /\ results' = [results EXCEPT ![Cur] = result]
            /\ files' = save_result(files, Cur, result)
            /\ status' = [status EXCEPT ![Cur] = "Succeeded"]
       ELSE /\ status' = [status EXCEPT ![Cur] = "Failed"]
            /\ UNCHANGED <<results, files>>
    /\ pc' = "iter"
    /\ UNCHANGED <<available, hasXvfb, hasDocker, hasDisplay, method, explicit,
                   terminals, i, stage, result, log, leftover, crash, gradeVars, aggVars>>

\* The aggregator has not been started.
AggIdle ==
    /\ apc = "idle"
    /\ dirExists = FALSE
    /\ dirFiles = <<>>
    /\ aggResults = <<>>
    /\ scores = <<>>
    /\ ranking = <<>>
    /\ rankingMd = <<>>

\* The tester at line 85 of __init__, before detect_terminals, on any host.
Init ==
    /\ pc = "new"
    /\ available = [t \in {} |-> FALSE]
    /\ hasXvfb \in BOOLEAN
    /\ hasDocker \in BOOLEAN
    /\ hasDisplay \in BOOLEAN
    /\ method = "auto"
    /\ explicit = FALSE
    /\ terminals = <<>>
    /\ i = 0
    /\ stage = 1
    /\ result = None
    /\ log = <<>>
    /\ status = [t \in Names |-> "Idle"]
    /\ results = [t \in Names |-> NoResult]
    /\ files = <<>>
    /\ leftover = {}
    /\ crash = "none"
    /\ gp = 0 /\ gq = 0 /\ gradeP = "" /\ gradeQ = ""
    /\ AggIdle

Next ==
    \/ DetectTerminals
    \/ RunTestsDefault
    \/ RunTestsListed
    \/ NextTerminal
    \/ ExplicitAttempt
    \/ AutoNativeFirst
    \/ AutoXvfb
    \/ AutoDocker
    \/ AutoNativeLast
    \/ FinishTerminal

Spec == Init /\ [][Next]_vars

-----------------------------------------------------------------------------
(* percentage_to_grade, on percentages counted in 1/Scale percent *)

percentage_to_grade_strict95(p) ==
    IF p > 95 * Scale THEN "A+"
    ELSE IF p >= 90 * Scale THEN "A"
    ELSE IF p >= 85 * Scale THEN "A-"
    ELSE IF p >= 80 * Scale THEN "B+"
    ELSE IF p >= 75 * Scale THEN "B"
    ELSE IF p >= 70 * Scale THEN "B-"
    ELSE IF p >= 65 * Scale THEN "C+"
    ELSE IF p >= 60 * Scale THEN "C"
    ELSE IF p >= 55 * Scale THEN "C-"
    ELSE IF p >= 50 * Scale THEN "D+"
    ELSE IF p >= 45 * Scale THEN "D"
    ELSE IF p >= 40 * Scale THEN "D-"
    ELSE "F"

percentage_to_grade(p) ==
    IF p >= 95 * Scale THEN "A+"
    ELSE IF p >= 90 * Scale THEN "A"
    ELSE IF p >= 85 * Scale THEN "A-"
    ELSE IF p >= 80 * Scale THEN "B+"
    ELSE IF p >= 75 * Scale THEN "B"
    ELSE IF p >= 70 * Scale THEN "B-"
    ELSE IF p >= 65 * Scale THEN "C+"
    ELSE IF p >= 60 * Scale THEN "C"
    ELSE IF p >= 55 * Scale THEN "C-"
    ELSE IF p >= 50 * Scale THEN "D+"
    ELSE IF p >= 45 * Scale THEN "D"
    ELSE IF p >= 40 * Scale THEN "D-"
    ELSE "F"

\* The inputs tried: every whole percent of the range and the value one step
\* below it.
GradeInputs ==
    {k * Scale - d : k \in (0 - PctSpan)..(100 + PctSpan), d \in {0, 1}}
        \ {(0 - PctSpan) * Scale - 1}

\* grade two percentages gp <= q
GradePair ==
    /\ gradeP = ""
    /\ \E q \in GradeInputs :
          /\ gp <= q
          /\ gq' = q
          /\ gradeP' = percentage_to_grade(gp)
          /\ gradeQ' = percentage_to_grade(q)
    /\ UNCHANGED <<gp, orchVars, aggVars>>

InitGrade ==
    /\ pc = "new"
    /\ available = [t \in {} |-> FALSE]
    /\ hasXvfb = FALSE
    /\ hasDocker = FALSE
    /\ hasDisplay = FALSE
    /\ method = "auto"
    /\ explicit = FALSE
    /\ terminals = <<>>
    /\ i = 0
    /\ stage = 1
    /\ result = None
    /\ log = <<>>
    /\ status = [t \in Names |-> "Idle"]
    /\ results = [t \in Names |-> NoResult]
    /\ files = <<>>
    /\ leftover = {}
    /\ crash = "none"
    /\ gp \in GradeInputs
    /\ gq = gp
    /\ gradeP = ""
    /\ gradeQ = ""
    /\ AggIdle

NextGrade == GradePair

SpecGrade == InitGrade /\ [][NextGrade]_vars

-----------------------------------------------------------------------------
(* Result documents, as calculate_terminal_scores reads them *)

\* A mapping is a function; a key is present when it is in the domain.
EmptyMap == [x \in {} |-> 0]

Versions == {"v1", "v2"}

Counts == 0..MaxCount

ResultKeys ==
    {"unicode_wide_results", "wide_character_results", "emoji_vs16_results",
     "emoji_zwj_results", "language_results"}

\* Sub-version entries: with n_errors and n_total, with errors and n_total,
\* and with one of the two counts missing.
StdEntries == {[n_errors |-> e, n_total |-> t] : e \in Counts, t \in Counts}

LangEntries == {[errors |-> e, n_total |-> t] : e \in Counts, t \in Counts}

PartialEntries ==
    {[n_total |-> t] : t \in Counts} \cup {[n_errors |-> e] : e \in Counts}

Entries == StdEntries \cup LangEntries \cup PartialEntries

\* test_results with one category key, holding any entries for any versions
DeepTestResults ==
    {k :> m : k \in ResultKeys,
              m \in UNION {[V -> Entries] : V \in SUBSET Versions}}

\* The entries tried when several categories are present at once.
BroadEntries(k) ==
    IF k = "language_results"
    THEN {[errors |-> e, n_total |-> MaxCount] : e \in Counts}
            \cup {[n_errors |-> e, n_total |-> MaxCount] : e \in Counts}
            \cup {[errors |-> 0, n_total |-> 0]}
    ELSE {[n_errors |-> e, n_total |-> MaxCount] : e \in Counts}
            \cup {[n_errors |-> 0, n_total |-> 0]}

\* test_results with any set of category keys, one entry each
BroadTestResults ==
    UNION {
        {[k \in K |-> "v1" :> pick[k]] :
            pick \in {f \in [K -> UNION {BroadEntries(k) : k \in ResultKeys}] :
                        \A k \in K : f[k] \in BroadEntries(k)}}
        : K \in SUBSET ResultKeys}

\* The document of the VS16 example: v1 2 of 10, v2 0 of 5.
Vs16ExampleDoc ==
    [unicode_version |-> "15.0",
     test_results |->
        [emoji_vs16_results |->
            [v1 |-> [n_errors |-> 2, n_total |-> 10],
             v2 |-> [n_errors |-> 0, n_total |-> 5]]]]

\* A loaded document without test_results, and the value of an empty file.
NoTestResultsDoc == [unicode_version |-> "15.0"]

WithTestResults(tr) == [unicode_version |-> "15.0", test_results |-> tr]

Documents ==
    {EmptyMap, NoTestResultsDoc, Vs16ExampleDoc}
        \cup {WithTestResults(tr) : tr \in DeepTestResults \cup BroadTestResults}

SmallDocuments ==
    {EmptyMap, NoTestResultsDoc, WithTestResults(EmptyMap),
     WithTestResults([emoji_zwj_results |->
                        [v1 |-> [n_errors |-> 0, n_total |-> MaxCount]]])}

\* A dict is the sequence of its items in insertion order.
DictKeys(d) == {d[k].name : k \in DOMAIN d}

DictGet(d, n) == d[CHOOSE k \in DOMAIN d : d[k].name = n].data

\* d[n] = v: a present key keeps its place, a new key goes last
DictSet(d, n, v) ==
    IF n \in DictKeys(d)
    THEN [k \in DOMAIN d |-> IF d[k].name = n THEN [name |-> n, data |-> v] ELSE d[k]]
    ELSE Append(d, [name |-> n, data |-> v])

\* The results dicts scored: one terminal with any document, or two
\* terminals with documents of the small set.
ResultDicts ==
    {<<>>}
        \cup {<<[name |-> "xterm", data |-> d]>> : d \in Documents}
        \cup {<<[name |-> "xterm", data |-> d], [name |-> "kitty", data |-> e]>> :
                d \in SmallDocuments, e \in SmallDocuments}

-----------------------------------------------------------------------------
(* calculate_terminal_scores *)

\* "=" in place of "+=": only one version is counted
SumOverOne(m, V, f) ==
    IF V = {} THEN 0 ELSE m[CHOOSE x \in V : TRUE][f]

RECURSIVE SumOver(_, _, _)
\* the sum of field f of the entries of m for the versions in V
SumOver(m, V, f) ==
    IF V = {} THEN 0
    ELSE LET v == CHOOSE x \in V : TRUE
         IN  m[v][f] + SumOver(m, V \ {v}, f)

\* ((n_total - n_errors) / n_total if n_total else 0) * 100
calculate_success_percentage(n_errors, n_total) ==
    IF n_total # 0 THEN ((n_total - n_errors) * 100 * Scale) \div n_total ELSE 0

\* One category block: the entries of test_results[key] that carry both
\* errField and n_total are summed.
CategoryScore(tr, key, errField, truthy) ==
    LET present == key \in DOMAIN tr /\ (truthy => DOMAIN tr[key] # {})
        counted == IF present
                   THEN {v \in DOMAIN tr[key] :
                            /\ errField \in DOMAIN tr[key][v]
                            /\ "n_total" \in DOMAIN tr[key][v]}
                   ELSE {}
        errors  == IF present THEN SumOver(tr[key], counted, errField) ELSE 0
        total   == IF present THEN SumOver(tr[key], counted, "n_total") ELSE 0
        pct     == calculate_success_percentage(errors, total)
    IN  [percentage |-> pct, grade |-> percentage_to_grade(pct),
         errors |-> errors, total |-> total]

Categories == <<"WIDE", "VS16", "ZWJ", "LANG">>

RECURSIVE SumPct(_, _)
SumPct(card, C) ==
    IF C = {} THEN 0
    ELSE LET c == CHOOSE x \in C : TRUE
         IN  card[c].percentage + SumPct(card, C \ {c})

\* the mean taken over all four categories
FinalScoreOfAll(card) ==
    LET pct == SumPct(card, {"WIDE", "VS16", "ZWJ", "LANG"}) \div 4
    IN  [percentage |-> pct, grade |-> percentage_to_grade(pct),
         components |-> 4]

\* FINAL: the mean of the percentages of the categories with total > 0
FinalScore(card) ==
    LET valid == {c \in {"WIDE", "VS16", "ZWJ", "LANG"} : card[c].total > 0}
        pct   == IF valid # {}
                 THEN SumPct(card, valid) \div Cardinality(valid)
                 ELSE 0
    IN  [percentage |-> pct, grade |-> percentage_to_grade(pct),
         components |-> Cardinality(valid)]

\* the body of the loop for one document that has test_results
TerminalScores(tr) ==
    LET card ==
            [WIDE |-> CategoryScore(tr, "unicode_wide_results", "n_errors", FALSE),
             VS16 |-> CategoryScore(tr, "emoji_vs16_results", "n_errors", FALSE),
             ZWJ  |-> CategoryScore(tr, "emoji_zwj_results", "n_errors", FALSE),
             LANG |-> CategoryScore(tr, "language_results", "errors", TRUE)]
    IN  [WIDE |-> card.WIDE, VS16 |-> card.VS16, ZWJ |-> card.ZWJ,
         LANG |-> card.LANG, FINAL |-> FinalScore(card)]

\* "if not data or 'test_results' not in data: continue"
Skipped(data) == DOMAIN data = {} \/ "test_results" \notin DOMAIN data

RECURSIVE ScoreFrom(_, _, _)
ScoreFrom(res, k, acc) ==
    IF k > Len(res) THEN acc
    ELSE IF Skipped(res[k].data) THEN ScoreFrom(res, k + 1, acc)
    ELSE ScoreFrom(res, k + 1,
            DictSet(acc, res[k].name,
                    TerminalScores(res[k].data.test_results)))

calculate_terminal_scores(res) == ScoreFrom(res, 1, <<>>)

\* scores = calculate_terminal_scores(results)
CalculateTerminalScores ==
    /\ apc = "loaded"
    /\ scores' = calculate_terminal_scores(aggResults)
    /\ apc' = "scored"
    /\ UNCHANGED <<dirExists, dirFiles, aggResults, ranking, rankingMd,
                   orchVars, gradeVars>>

\* The tester is not used by the aggregator.
OrchIdle ==
    /\ pc = "new"
    /\ available = [t \in {} |-> FALSE]
    /\ hasXvfb = FALSE
    /\ hasDocker = FALSE
    /\ hasDisplay = FALSE
    /\ method = "auto"
    /\ explicit = FALSE
    /\ terminals = <<>>
    /\ i = 0
    /\ stage = 1
    /\ result = None
    /\ log = <<>>
    /\ status = [t \in Names |-> "Idle"]
    /\ results = [t \in Names |-> NoResult]
    /\ files = <<>>
    /\ leftover = {}
    /\ crash = "none"

GradeIdle == gp = 0 /\ gq = 0 /\ gradeP = "" /\ gradeQ = ""

InitScore ==
    /\ OrchIdle
    /\ GradeIdle
    /\ apc = "loaded"
    /\ dirExists = TRUE
    /\ dirFiles = <<>>
    /\ aggResults \in ResultDicts
    /\ scores = <<>>
    /\ ranking = <<>>
    /\ rankingMd = <<>>

NextScore == CalculateTerminalScores

SpecScore == InitScore /\ [][NextScore]_vars

-----------------------------------------------------------------------------
(* aggregate_results.py: main, from load_results to the two reports *)

MaxFiles == 3

\* The stem of a file name is the sequence of its "_"-delimited tokens.
Stems ==
    {<<"A", "20240101", "120000">>,
     <<"B", "20240101", "120000">>,
     <<"C", "20240101", "120000">>,
     <<"A", "20240102", "120000">>,
     <<"my", "B", "20240101", "120000">>,
     <<"C", "120000">>}

\* A document with one tested category, e errors of 10.
ZwjDoc(e) ==
    WithTestResults([emoji_zwj_results |->
                        [v1 |-> [n_errors |-> e, n_total |-> 10]]])

\* A *.yaml entry of the directory: open and safe_load either raise or
\* give the document.
YamlFiles ==
    {[stem |-> st, readable |-> FALSE, data |-> EmptyMap] : st \in Stems}
        \cup {[stem |-> st, readable |-> TRUE, data |-> ZwjDoc(e)] :
                  st \in Stems, e \in 1..MaxCount}

\* What glob("*.yaml") can yield: files of distinct names, in any order.
Directories ==
    UNION {{d \in [1..n -> YamlFiles] :
               \A j, k \in 1..n : d[j].stem = d[k].stem => j = k} :
           n \in 0..MaxFiles}

\* rsplit("_", 1) in place of rsplit("_", 2)
terminal_name_rsplit1(stem) ==
    IF Len(stem) = 1 THEN stem ELSE SubSeq(stem, 1, Len(stem) - 1)

\* tokens.rsplit("_", maxsplit): the parts, the first being what is left
\* unsplit
RECURSIVE rsplit(_, _)
rsplit(tokens, maxsplit) ==
    IF maxsplit = 0 \/ Len(tokens) = 1
    THEN <<tokens>>
    ELSE Append(rsplit(SubSeq(tokens, 1, Len(tokens) - 1), maxsplit - 1),
                <<tokens[Len(tokens)]>>)

\* yaml_file.stem.rsplit('_', 2)[0]
terminal_name(stem) == rsplit(stem, 2)[1]

\* The body of the loop of load_results for one file.
LoadFile(res, f) ==
    IF f.readable THEN DictSet(res, terminal_name(f.stem), f.data) ELSE res

RECURSIVE LoadFrom(_, _, _)
LoadFrom(d, k, res) ==
    IF k > Len(d) THEN res ELSE LoadFrom(d, k + 1, LoadFile(res, d[k]))

load_results == IF ~dirExists THEN <<>> ELSE LoadFrom(dirFiles, 1, <<>>)

\* results = load_results(args.results_dir); main returns 1 on no results.
LoadResults ==
    /\ apc = "start"
    /\ aggResults' = load_results
    /\ apc' = IF aggResults' = <<>> THEN "exit1" ELSE "loaded"
    /\ UNCHANGED <<dirExists, dirFiles, scores, ranking, rankingMd,
                   orchVars, gradeVars>>

\* scores.get('FINAL', {}).get('percentage', 0)
FinalPct(card) ==
    IF "FINAL" \in DOMAIN card /\ "percentage" \in DOMAIN card.FINAL
    THEN card.FINAL.percentage ELSE 0

\* (terminal, final_pct) for every item of the scores dict, in its order
SortedTerminalsUnsorted(sc) ==
    [k \in DOMAIN sc |-> <<sc[k].name, FinalPct(sc[k].data)>>]

\* an equal element goes before its equals
InsertTiesFirst(sorted, x) ==
    LET p == Cardinality({j \in DOMAIN sorted : sorted[j][2] > x[2]})
    IN  SubSeq(sorted, 1, p) \o <<x>> \o SubSeq(sorted, p + 1, Len(sorted))

\* The place of x in a list sorted on x[1] with reverse=True: after every
\* element that is not smaller, the sort being stable.
InsertDesc(sorted, x) ==
    LET p == Cardinality({j \in DOMAIN sorted : sorted[j][2] >= x[2]})
    IN  SubSeq(sorted, 1, p) \o <<x>> \o SubSeq(sorted, p + 1, Len(sorted))

RECURSIVE SortFrom(_, _, _)
SortFrom(items, k, acc) ==
    IF k > Len(items) THEN acc
    ELSE SortFrom(items, k + 1, InsertDesc(acc, items[k]))

\* sorted_terminals.sort(key=lambda x: x[1], reverse=True), then the
\* terminals of the rows in order
sorted_terminals(sc) ==
    LET st == SortFrom(SortedTerminalsUnsorted(sc), 1, <<>>)
    IN  [k \in DOMAIN st |-> st[k][1]]

GenerateReport ==
    /\ apc = "scored"
    /\ ranking' = sorted_terminals(scores)
    /\ apc' = "reported"
    /\ UNCHANGED <<dirExists, dirFiles, aggResults, scores, rankingMd,
                   orchVars, gradeVars>>

GenerateMarkdownReport ==
    /\ apc = "reported"
    /\ rankingMd' = sorted_terminals(scores)
    /\ apc' = "exit0"
    /\ UNCHANGED <<dirExists, dirFiles, aggResults, scores, ranking,
                   orchVars, gradeVars>>

InitMain ==
    /\ OrchIdle
    /\ GradeIdle
    /\ apc = "start"
    /\ dirExists \in BOOLEAN
    /\ dirFiles \in Directories
    /\ ~dirExists => dirFiles = <<>>
    /\ aggResults = <<>>
    /\ scores = <<>>
    /\ ranking = <<>>
    /\ rankingMd = <<>>

NextMain ==
    \/ LoadResults
    \/ CalculateTerminalScores
    \/ GenerateReport
    \/ GenerateMarkdownReport

SpecMain == InitMain /\ [][NextMain]_vars

-----------------------------------------------------------------------------
(* Claims about run_tests *)

\* The terminal whose chain the log describes has been decided.
Decided == pc \in {"iter", "done"} /\ i >= 1

\* C1: in auto mode no strategy is called twice for the same terminal: the
\* calls made for the current terminal name pairwise different strategies.
C1_NoStrategyRetried ==
    method = "auto" =>
        \A a, b \in DOMAIN log :
            a # b => log[a].strategy # log[b].strategy

\* C2: no strategy call lets an exception escape; every call ends by
\* returning a document or the failure value.
C2_AttemptsNeverRaise ==
    \A k \in DOMAIN log : log[k].out.exc = "none"

\* C3: when run_tests is over, every terminal of its list has been decided
\* (Succeeded or Failed), and every Succeeded terminal is in self.results.
C3_EveryTerminalDecided ==
    pc \in {"done", "crashed"} =>
        /\ \A k \in DOMAIN terminals :
              status[terminals[k]] \in {"Succeeded", "Failed"}
        /\ \A t \in Names : status[t] = "Succeeded" => results[t] # NoResult

\* C4: in auto mode, once a strategy has returned something other than None
\* for a terminal, no further strategy is called for that terminal: only the
\* last call of a terminal's chain can have returned a document, and the
\* value carried to the end of the chain is the one that call returned.
C4_StopAtFirstResult ==
    (method = "auto" /\ log # <<>>) =>
        /\ \A k \in 1..(Len(log) - 1) : log[k].out.ret = None
        /\ (pc \in {"chain", "finish", "iter", "done"} =>
                result = log[Len(log)].out.ret)

C4_Witness ==
    /\ method = "auto"
    /\ Decided
    /\ hasDocker
    /\ Len(log) = 2
    /\ log[1].strategy = "native" /\ log[1].out.ret = None
    /\ log[2].strategy = "xvfb" /\ log[2].out.ret.kind = "doc"
    /\ status[Cur] = "Succeeded"

\* The log holds an xvfb call that timed out directly followed by a docker
\* call that returned a document.
XvfbTimeoutThenDocker ==
    \E k \in 1..(Len(log) - 1) :
        /\ log[k].strategy = "xvfb" /\ log[k].out.why = "timeout"
        /\ log[k + 1].strategy = "docker" /\ log[k + 1].out.ret.kind = "doc"

SavesFor(t) == {k \in DOMAIN files : files[k].name = t}

\* C5: in auto mode, when the xvfb call timed out and the docker call then
\* returned a document, the terminal is Succeeded, self.results holds the
\* docker document for it, and save_result wrote exactly one file for it,
\* holding that document.
C5_XvfbTimeoutDockerSucceeds ==
    (method = "auto" /\ Decided /\ XvfbTimeoutThenDocker) =>
        /\ status[Cur] = "Succeeded"
        /\ results[Cur] = Doc("docker", Cur)
        /\ Cardinality(SavesFor(Cur)) = 1
        /\ \A k \in SavesFor(Cur) : files[k].data = Doc("docker", Cur)

C5_Witness ==
    /\ method = "auto"
    /\ Decided
    /\ XvfbTimeoutThenDocker
    /\ status[Cur] = "Succeeded"
    /\ Cardinality(SavesFor(Cur)) = 1

\* C6: at every point of a run, each terminal in self.results has a saved
\* file holding its document: the save is done before the next terminal's
\* first strategy call, and a later failure does not take it away.
C6_ResultsArePersisted ==
    \A t \in Names :
        results[t] # NoResult =>
            \E k \in DOMAIN files :
                files[k].name = t /\ files[k].data = results[t]

C6_Witness ==
    /\ pc = "crashed"
    /\ i = 2
    /\ status[terminals[1]] = "Succeeded"
    /\ \E k \in DOMAIN files : files[k].name = terminals[1]

\* C7: every external invocation is bounded by a timeout that is turned into
\* the strategy's failure: no call waits forever on its process, and no
\* TimeoutExpired ends run_tests.
C7_InvocationsBounded ==
    /\ pc # "hung"
    /\ crash # "TimeoutExpired"

\* C8: a strategy call that has ended has left none of its transient
\* resources (temporary Dockerfile, temporary result file, detached session)
\* behind.
C8_NothingLeftBehind == leftover = {}

\* A configured terminal that detect_terminals marked unavailable.
Unavailable(t) == t \in DOMAIN available /\ ~available[t]

\* C9: a terminal marked unavailable by the startup probe never has a
\* strategy launched for it and never becomes Succeeded.
C9_UnavailableNeverTested ==
    \A t \in Names :
        Unavailable(t) =>
            /\ status[t] # "Succeeded"
            /\ (i >= 1 /\ Cur = t) =>
                   \A k \in DOMAIN log : ~log[k].out.launched

\* C9 as amended: a terminal marked unavailable never enters the chain when
\* run_tests is given no list; when it is listed, the native and xvfb
\* strategies launch nothing for it, so only docker (which does not consult
\* the probe) launches, and it becomes Succeeded only with a docker document.
C9_UnavailableOnlyDocker ==
    \A t \in Names :
        Unavailable(t) =>
            /\ ~explicit => status[t] = "Idle"
            /\ (i >= 1 /\ Cur = t) =>
                   \A k \in DOMAIN log :
                       log[k].out.launched => log[k].strategy = "docker"
            /\ status[t] = "Succeeded" => results[t] = Doc("docker", t)

C9_Witness ==
    \E t \in Names :
        /\ Unavailable(t)
        /\ explicit
        /\ method = "auto"
        /\ Decided /\ Cur = t
        /\ status[t] = "Succeeded"
        /\ \E k \in DOMAIN log :
              log[k].strategy = "native" /\ log[k].out.why = "not_available"

-----------------------------------------------------------------------------
(* Claims about percentage_to_grade *)

\* The scale of the claim, worst grade first.
GradeScale ==
    <<"F", "D-", "D", "D+", "C-", "C", "C+", "B-", "B", "B+", "A-", "A", "A+">>

\* The claim's inclusive lower bound, in percent, of each grade above F.
LowerBound ==
    [g \in {GradeScale[k] : k \in 2..Len(GradeScale)} |->
        CASE g = "D-" -> 40 [] g = "D" -> 45 [] g = "D+" -> 50
          [] g = "C-" -> 55 [] g = "C" -> 60 [] g = "C+" -> 65
          [] g = "B-" -> 70 [] g = "B" -> 75 [] g = "B+" -> 80
          [] g = "A-" -> 85 [] g = "A" -> 90 [] g = "A+" -> 95]

\* Position of a grade on the scale; 0 for a string that is no grade.
Rank(g) ==
    IF \E k \in DOMAIN GradeScale : GradeScale[k] = g
    THEN CHOOSE k \in DOMAIN GradeScale : GradeScale[k] = g
    ELSE 0

\* The position of the highest bucket whose lower bound p reaches, F's
\* position when it reaches none.
BucketOf(p) ==
    LET reached == {k \in 2..Len(GradeScale) :
                        p >= LowerBound[GradeScale[k]] * Scale}
    IN  IF reached = {} THEN 1
        ELSE CHOOSE k \in reached : \A j \in reached : j <= k

\* C10: percentage_to_grade returns, for every p, the grade of the highest
\* bucket whose inclusive lower bound p reaches (F below 40); for p <= q the
\* grade of q is at least as good; 95.0 is A+, the step below 95 is A, 0 is F.
C10_GradeScale ==
    gradeP # "" =>
        /\ Rank(gradeP) = BucketOf(gp)
        /\ Rank(gradeQ) = BucketOf(gq)
        /\ Rank(gradeQ) >= Rank(gradeP)
        /\ (gp = 95 * Scale => gradeP = "A+")
        /\ (gp = 95 * Scale - 1 => gradeP = "A")
        /\ (gp = 0 => gradeP = "F")

C10_Witness ==
    /\ gp = 95 * Scale - 1 /\ gradeP = "A"
    /\ gq = 95 * Scale /\ gradeQ = "A+"

-----------------------------------------------------------------------------
(* Claims about the end of the auto chain *)

\* The call of test_terminal_native at the end of the chain has been made
\* for the current terminal: a terminal that needs no display has then had
\* two native calls, any other terminal one.
FinalNativeMade ==
    Cardinality({k \in DOMAIN log : log[k].strategy = "native"})
        = (IF terminal_configs[Cur].needs_display THEN 1 ELSE 2)

\* C18: in auto mode a terminal is marked Failed only after the final native
\* attempt of the chain has been made for it.
C18_FailedAfterFinalNative ==
    (method = "auto" /\ Decided /\ status[Cur] = "Failed") => FinalNativeMade

-----------------------------------------------------------------------------
(* Claims about calculate_terminal_scores *)

\* The documented keys of each category's results in test_results.
CategoryKeys(c) ==
    CASE c = "WIDE" -> {"wide_character_results", "unicode_wide_results"}
      [] c = "VS16" -> {"emoji_vs16_results"}
      [] c = "ZWJ"  -> {"emoji_zwj_results"}
      [] c = "LANG" -> {"language_results"}

\* The sub-version entries of category c in tr that carry n_errors and
\* n_total, each named by its key and version.
CategoryEntries(tr, c) ==
    {kv \in (CategoryKeys(c) \cap DOMAIN tr) \X Versions :
        /\ kv[2] \in DOMAIN tr[kv[1]]
        /\ "n_errors" \in DOMAIN tr[kv[1]][kv[2]]
        /\ "n_total" \in DOMAIN tr[kv[1]][kv[2]]}

RECURSIVE EntrySum(_, _, _)
EntrySum(tr, E, f) ==
    IF E = {} THEN 0
    ELSE LET kv == CHOOSE x \in E : TRUE
         IN  tr[kv[1]][kv[2]][f] + EntrySum(tr, E \ {kv}, f)

Scored == apc = "scored"

\* C11: for each category of a scorecard, errors and total are the sums of
\* n_errors and n_total over the category's sub-version entries in the
\* document, and percentage is 100 * (total - errors) / total when total > 0
\* and 0 otherwise.
C11_CategorySums ==
    Scored =>
        \A k \in DOMAIN scores :
            LET card == scores[k].data
                tr   == DictGet(aggResults, scores[k].name).test_results
            IN  \A c \in {"WIDE", "VS16", "ZWJ", "LANG"} :
                    /\ card[c].errors = EntrySum(tr, CategoryEntries(tr, c), "n_errors")
                    /\ card[c].total = EntrySum(tr, CategoryEntries(tr, c), "n_total")
                    /\ card[c].percentage =
                          (IF card[c].total > 0
                           THEN (100 * Scale * (card[c].total - card[c].errors))
                                    \div card[c].total
                           ELSE 0)

\* The document holds exactly the VS16 sub-versions of the example.
HasVs16Example(tr) ==
    /\ "emoji_vs16_results" \in DOMAIN tr
    /\ tr["emoji_vs16_results"] =
          [v1 |-> [n_errors |-> 2, n_total |-> 10],
           v2 |-> [n_errors |-> 0, n_total |-> 5]]

\* The VS16 score of a document that holds the example has errors 2,
\* total 15, percentage 1300/15 to one fixed-point step, and grade g.
Vs16ExampleScores(g) ==
    Scored =>
        \A k \in DOMAIN scores :
            LET tr == DictGet(aggResults, scores[k].name).test_results
                sc == scores[k].data.VS16
            IN  HasVs16Example(tr) =>
                    /\ sc.errors = 2
                    /\ sc.total = 15
                    /\ 15 * sc.percentage <= 1300 * Scale
                    /\ 1300 * Scale < 15 * (sc.percentage + 1)
                    /\ sc.grade = g

\* C12 as stated: for VS16 sub-versions v1 (2 errors of 10) and v2 (0 of 5)
\* the VS16 score is errors 2, total 15, percentage 86.67 and grade B+.
C12_Vs16ExampleGradeBPlus == Vs16ExampleScores("B+")

\* C12: for VS16 sub-versions v1 (2 errors of 10) and v2 (0 of 5) the VS16
\* score is errors 2, total 15, percentage 86.67 and grade A-, the grade of
\* the scale for a percentage of at least 85.
C12_Vs16ExampleGradeAMinus == Vs16ExampleScores("A-")

C12_Witness ==
    /\ Scored
    /\ \E k \in DOMAIN scores :
          /\ HasVs16Example(DictGet(aggResults, scores[k].name).test_results)
          /\ scores[k].data.VS16.total = 15
          /\ scores[k].data.VS16.grade = "A-"

\* The categories of a scorecard that were tested, and what they add up to.
Tested(card) == {c \in {"WIDE", "VS16", "ZWJ", "LANG"} : card[c].total > 0}

Contribution(card, c) == IF card[c].total > 0 THEN card[c].percentage ELSE 0

TestedSum(card) ==
    Contribution(card, "WIDE") + Contribution(card, "VS16")
        + Contribution(card, "ZWJ") + Contribution(card, "LANG")

\* C13: FINAL.percentage is the unweighted mean (to one fixed-point step) of
\* the percentages of exactly the categories with total > 0 and components
\* is their number; with no such category FINAL is 0, F, 0 components;
\* WIDE 100 and LANG 50 with ZWJ and VS16 untested give 75.
C13_FinalIsMeanOfTested ==
    Scored =>
        \A k \in DOMAIN scores :
            LET card == scores[k].data
                n    == Cardinality(Tested(card))
            IN  /\ card.FINAL.components = n
                /\ n = 0 => (card.FINAL.percentage = 0 /\ card.FINAL.grade = "F")
                /\ n > 0 =>
                      /\ n * card.FINAL.percentage <= TestedSum(card)
                      /\ TestedSum(card) < n * (card.FINAL.percentage + 1)
                /\ (/\ Tested(card) = {"WIDE", "LANG"}
                    /\ card.WIDE.percentage = 100 * Scale
                    /\ card.LANG.percentage = 50 * Scale)
                      => card.FINAL.percentage = 75 * Scale

C13_Witness ==
    /\ Scored
    /\ \E k \in DOMAIN scores :
          LET card == scores[k].data
          IN  /\ Tested(card) = {"WIDE", "LANG"}
              /\ card.WIDE.percentage = 100 * Scale
              /\ card.LANG.percentage = 50 * Scale
              /\ card.FINAL.percentage = 75 * Scale
              /\ card.FINAL.components = 2

\* C14: every percentage of every scorecard lies in [0, 100].
C14_PercentagesClamped ==
    Scored =>
        \A k \in DOMAIN scores :
            \A c \in {"WIDE", "VS16", "ZWJ", "LANG", "FINAL"} :
                /\ scores[k].data[c].percentage >= 0
                /\ scores[k].data[c].percentage <= 100 * Scale

\* C15: a loaded document without test_results still gets a scorecard, with
\* the four categories at total 0 and FINAL 0 / F.
C15_ScorecardWithoutTestResults ==
    Scored =>
        \A k \in DOMAIN aggResults :
            LET data == aggResults[k].data
                n    == aggResults[k].name
            IN  (DOMAIN data # {} /\ "test_results" \notin DOMAIN data) =>
                    /\ n \in DictKeys(scores)
                    /\ \A c \in {"WIDE", "VS16", "ZWJ", "LANG"} :
                          DictGet(scores, n)[c].total = 0
                    /\ DictGet(scores, n).FINAL.percentage = 0
                    /\ DictGet(scores, n).FINAL.grade = "F"

\* test_results with the wide results moved to the other documented key
UnderUnicodeWide(tr) ==
    [k \in (DOMAIN tr \ {"wide_character_results"}) \cup {"unicode_wide_results"} |->
        IF k = "unicode_wide_results" THEN tr["wide_character_results"] ELSE tr[k]]

\* C19: a document with its wide entries under wide_character_results gets
\* the WIDE score of the same document with them under unicode_wide_results,
\* and every category counts each entry that carries n_errors and n_total.
C19_WideKeyAndEntryCount ==
    Scored =>
        \A k \in DOMAIN scores :
            LET card == scores[k].data
                tr   == DictGet(aggResults, scores[k].name).test_results
            IN  /\ ("wide_character_results" \in DOMAIN tr
                        /\ "unicode_wide_results" \notin DOMAIN tr)
                      => card.WIDE = TerminalScores(UnderUnicodeWide(tr)).WIDE
                /\ \A c \in {"WIDE", "VS16", "ZWJ", "LANG"} :
                      card[c].total >= EntrySum(tr, CategoryEntries(tr, c), "n_total")

-----------------------------------------------------------------------------
(* Claims about the reports' ranking *)

\* The place of terminal n in the scores dict, and its FINAL percentage.
Discovery(n) == CHOOSE k \in DOMAIN scores : scores[k].name = n

FinalOf(n) == scores[Discovery(n)].data.FINAL.percentage

\* r lists every scored terminal once, by descending FINAL percentage, equal
\* percentages in the order of the scores dict.
IsRanking(r) ==
    /\ Len(r) = Len(scores)
    /\ {r[j] : j \in DOMAIN r} = DictKeys(scores)
    /\ \A j, k \in DOMAIN r :
          j < k =>
              /\ FinalOf(r[j]) >= FinalOf(r[k])
              /\ FinalOf(r[j]) = FinalOf(r[k]) => Discovery(r[j]) < Discovery(r[k])

\* Terminals A, B, C scored in this order with FINAL 80, 80, 90.
RankingExample ==
    /\ [k \in DOMAIN scores |-> scores[k].name] = <<<<"A">>, <<"B">>, <<"C">>>>
    /\ [k \in DOMAIN scores |-> scores[k].data.FINAL.percentage]
          = <<80 * Scale, 80 * Scale, 90 * Scale>>

\* C16: the ranking of both reports lists every scored terminal exactly once
\* in descending FINAL percentage, equal percentages in discovery order;
\* A, B, C with 80, 80, 90 are ranked C, A, B.
C16_RankingStableDescending ==
    /\ apc \in {"reported", "exit0"} =>
          /\ IsRanking(ranking)
          /\ RankingExample => ranking = <<<<"C">>, <<"A">>, <<"B">>>>
    /\ apc = "exit0" =>
          /\ IsRanking(rankingMd)
          /\ RankingExample => rankingMd = <<<<"C">>, <<"A">>, <<"B">>>>

C16_Witness ==
    /\ apc = "exit0"
    /\ RankingExample
    /\ ranking = <<<<"C">>, <<"A">>, <<"B">>>>
    /\ rankingMd = <<<<"C">>, <<"A">>, <<"B">>>>

-----------------------------------------------------------------------------
(* Claims about load_results *)

Loaded == apc \in {"loaded", "exit1"}

\* The stem without its two trailing tokens.
TwoStripped(stem) == SubSeq(stem, 1, Len(stem) - 2)

Readable == {k \in DOMAIN dirFiles : dirFiles[k].readable}

\* C17 as stated: load_results returns exactly the documents of the readable
\* files, each under its stem with the two trailing tokens stripped, and
\* nothing when the directory does not exist.
C17_ExactlyReadableDocuments ==
    Loaded =>
        /\ ~dirExists => aggResults = <<>>
        /\ {<<aggResults[k].name, aggResults[k].data>> : k \in DOMAIN aggResults}
              = {<<TwoStripped(dirFiles[k].stem), dirFiles[k].data>> : k \in Readable}
        /\ Len(aggResults) = Cardinality(Readable)

\* The key of a stem: without its two trailing tokens, or its first token
\* when it has fewer than three.
KeyOf(stem) == IF Len(stem) >= 3 THEN TwoStripped(stem) ELSE <<stem[1]>>

\* The last readable file with key n, in the order of enumeration.
LastReadable(n) ==
    CHOOSE k \in Readable :
        /\ KeyOf(dirFiles[k].stem) = n
        /\ \A j \in Readable : KeyOf(dirFiles[j].stem) = n => j <= k

\* C17: load_results returns one document per key of a readable file, the
\* document of the last readable file of that key in enumeration order;
\* unreadable files add nothing, and a missing directory gives nothing.
C17_OneDocumentPerKey ==
    Loaded =>
        /\ ~dirExists => aggResults = <<>>
        /\ DictKeys(aggResults) = {KeyOf(dirFiles[k].stem) : k \in Readable}
        /\ Len(aggResults) = Cardinality(DictKeys(aggResults))
        /\ \A k \in DOMAIN aggResults :
              aggResults[k].data = dirFiles[LastReadable(aggResults[k].name)].data

\* An unreadable file between two readable files of one terminal with
\* different documents, and a file of another terminal after them.
C17_Witness ==
    /\ Loaded
    /\ dirExists
    /\ \E a, b, c \in DOMAIN dirFiles :
          /\ a < b /\ b < c
          /\ dirFiles[a].readable /\ ~dirFiles[b].readable /\ dirFiles[c].readable
          /\ KeyOf(dirFiles[a].stem) # KeyOf(dirFiles[c].stem)
          /\ DictKeys(aggResults) = {KeyOf(dirFiles[a].stem), KeyOf(dirFiles[c].stem)}
          /\ DictGet(aggResults, KeyOf(dirFiles[c].stem)) = dirFiles[c].data

=============================================================================
